---- MODULE Spec2Model ----
(***************************************************************************)
(* Arbi-Scanner (src/main.py): the continuous cross-venue arbitrage scan.  *)
(*                                                                         *)
(* One scan cycle fans out one fetch_ticker call per (exchange, symbol),   *)
(* gathers the results, groups them by symbol, evaluates every group,      *)
(* sorts the opportunities, reports them and sleeps.  The loop runs inside *)
(* try/finally; the finally clause awaits the close of every exchange.     *)
(*                                                                         *)
(* Numbers.  Prices and volumes are small naturals.  A fee rate is kept in *)
(* thousandths (0.001 -> 1).  net_profit and profit_percentage are exact   *)
(* rationals kept as integers over a common denominator:                   *)
(*     net_profit        = ProfitNum / (FeeUnit^2 * PriceUnit)             *)
(*     profit_percentage = 100 * net_profit                                *)
(* fees (buy_fee + sell_fee) is kept in thousandths of a price unit.       *)
(* Python's None in a numeric field is the value None (-1).                *)
(***************************************************************************)
EXTENDS Integers, Sequences, FiniteSets, TLC

VARIABLES
    symbols,                \* the list get_valid_pairs returned
    pc,                     \* where continuous_arbitrage_scan is
    all_results,            \* gather's result slots: task index -> result
    opportunities,          \* the three values scan_arbitrage returned
    grouped_results,
    arbitrage_before_fees,
    cancelled,              \* an external cancellation signal has arrived
    must_cancel,            \* the task has a cancellation not yet raised in it
    closed,                 \* exchanges whose close() has run
    raised                  \* the exception that left the loop, if any

vars == <<symbols, pc, all_results, opportunities, grouped_results,
          arbitrage_before_fees, cancelled, must_cancel, closed, raised>>

---------------------------------------------------------------------------
(* Configuration *)

\* Largest price a venue quotes in the model.
MaxPrice == 2

None == -1

FeeUnit == 1000

\* FEES, in thousandths.
FEES == [binance |-> 1, kraken |-> 4, bitfinex |-> 2]

\* exchange_ids, in the order the exchanges are built.
exchange_ids == <<"binance", "kraken", "bitfinex">>

\* The symbols common to all exchanges (a set).
common_symbols == {"BTC/USDT", "ETH/USDT", "BTC/EUR"}

\* symbol.split('/')[-1]
QuoteCurrency(symbol) ==
    CASE symbol = "BTC/USDT" -> "USDT"
      [] symbol = "ETH/USDT" -> "USDT"
      [] symbol = "BTC/EUR"  -> "EUR"

base_currencies == {"USDT", "BTC", "ETH"}

\* get_valid_pairs iterates the set and returns the list of the symbols quoted
\* in a base currency: every such symbol once, in the set's iteration order,
\* which differs between runs.
get_valid_pairs(pairs) ==
    LET valid == {symbol \in pairs : QuoteCurrency(symbol) \in base_currencies}
    IN  {l \in [1..Cardinality(valid) -> valid] :
            \A i, j \in DOMAIN l : i # j => l[i] # l[j]}

RECURSIVE Factorial(_)
Factorial(n) == IF n <= 1 THEN 1 ELSE n * Factorial(n - 1)

\* Common denominator of the prices: every ask in 1..MaxPrice divides it.
PriceUnit == Factorial(MaxPrice)

\* The result fetch_ticker returns when the exchange call raised.
NoneResult == [none |-> TRUE]

\* What exchange.fetch_ticker(symbol) can do: raise, or return a ticker.
Raises == [raises |-> TRUE]
Ticker(bid, ask, vol) == [raises |-> FALSE, bid |-> bid, ask |-> ask, baseVolume |-> vol]

Responses ==
    {Raises}
    \cup {Ticker(p, p, 1) : p \in 1..(MaxPrice - 1)}    \* flat book
    \cup {Ticker(MaxPrice, 1, 2),                       \* bid above own ask
          Ticker(MaxPrice, 0, 0),                       \* ask = 0, volume = 0
          Ticker(None, 1, 1)}                           \* bid is None

---------------------------------------------------------------------------
(* fetch_ticker, fetch_all_tickers *)

\* tasks of fetch_all_tickers: exchange-major, symbol-minor.
Tasks ==
    [k \in 1..(Len(exchange_ids) * Len(symbols)) |->
        [exchange |-> exchange_ids[((k - 1) \div Len(symbols)) + 1],
         symbol   |-> symbols[((k - 1) % Len(symbols)) + 1]]]

NumTasks == Len(Tasks)

fetch_ticker(exchange, symbol, resp) ==
    IF resp.raises
    THEN NoneResult
    ELSE [symbol |-> symbol, exchange |-> exchange,
          ask |-> resp.ask, bid |-> resp.bid, volume |-> resp.baseVolume]

\* A gather that keeps the results in the order of completion.
GatherStoreInCompletionOrder(slots, i, result) ==
    slots @@ ((Cardinality(DOMAIN slots) + 1) :> result)

\* asyncio.gather keeps each result at the position of its awaitable.
GatherStore(slots, i, result) == slots @@ (i :> result)

\* gather returns once every awaitable has completed.
GatherDone(slots) == DOMAIN slots = 1..NumTasks

ResultList(slots) == [i \in 1..NumTasks |-> slots[i]]

---------------------------------------------------------------------------
(* dicts with insertion order: a sequence of [key, value] entries *)

Keys(d) == {d[i].key : i \in 1..Len(d)}

Get(d, k) == (CHOOSE i \in 1..Len(d) : d[i].key = k)

Value(d, k) == d[Get(d, k)].value

Append2(d, k, x) ==
    IF k \in Keys(d)
    THEN [d EXCEPT ![Get(d, k)].value = Append(@, x)]
    ELSE Append(d, [key |-> k, value |-> <<x>>])

\* A grouping loop that stops at the first None result.
RECURSIVE GroupFromStopAtNone(_, _, _)
GroupFromStopAtNone(results, i, d) ==
    IF i > Len(results) THEN d
    ELSE IF results[i] = NoneResult
         THEN d
         ELSE GroupFromStopAtNone(results, i + 1, Append2(d, results[i].symbol, results[i]))

\* main.py 48-54: group the non-None results by symbol.
RECURSIVE GroupFrom(_, _, _)
GroupFrom(results, i, d) ==
    IF i > Len(results) THEN d
    ELSE IF results[i] = NoneResult
         THEN GroupFrom(results, i + 1, d)
         ELSE GroupFrom(results, i + 1, Append2(d, results[i].symbol, results[i]))

GroupBySymbol(results) == GroupFrom(results, 1, <<>>)

---------------------------------------------------------------------------
(* scan_arbitrage: evaluation of one symbol's results *)

Max(S) == CHOOSE x \in S : \A y \in S : y <= x
Min(S) == CHOOSE x \in S : \A y \in S : x <= y

Bids(results) == {results[i].bid : i \in 1..Len(results)}
Asks(results) == {results[i].ask : i \in 1..Len(results)}

\* main.py 66-68 raise TypeError when a bid or an ask is None: max/min compare
\* None with a number, and a single None is subtracted.
SpreadRaises(results) == None \in Bids(results) \cup Asks(results)

\* main.py 66-69: highest bid minus lowest ask over all results of the symbol,
\* kept when positive.
RawSpread(results) ==
    LET highest_bid == Max(Bids(results))
        lowest_ask  == Min(Asks(results))
        max_diff    == highest_bid - lowest_ask
    IN  IF max_diff > 0 THEN max_diff ELSE None

\* itertools.combinations(range(n), 2): index pairs i < j, lexicographic.
Combinations2(n) ==
    SelectSeq([k \in 1..(n * n) |-> <<((k - 1) \div n) + 1, ((k - 1) % n) + 1>>],
              LAMBDA p : p[1] < p[2])

\* main.py 72: exchange1 sells, exchange2 buys.
Crosses(exchange1, exchange2) ==
    exchange1.bid > exchange2.ask /\ exchange2.ask > 0

\* main.py 78-82, over the denominator FeeUnit^2 * PriceUnit.
ProfitNum(buy_price, sell_price, buy_rate, sell_rate) ==
    (FeeUnit - buy_rate) * (FeeUnit - sell_rate) * sell_price * (PriceUnit \div buy_price)
    - FeeUnit * FeeUnit * PriceUnit

MinVolume(a, b) == IF a <= b THEN a ELSE b

\* main.py 73-94.
Opportunity(symbol, exchange1, exchange2) ==
    LET buy_price  == exchange2.ask
        sell_price == exchange1.bid
        buy_fee    == buy_price * FEES[exchange2.exchange]
        sell_fee   == sell_price * FEES[exchange1.exchange]
        net_profit == ProfitNum(buy_price, sell_price,
                                FEES[exchange2.exchange], FEES[exchange1.exchange])
    IN  [symbol            |-> symbol,
         buy_at            |-> exchange2.exchange,
         sell_at           |-> exchange1.exchange,
         buy_price         |-> buy_price,
         sell_price        |-> sell_price,
         fees              |-> buy_fee + sell_fee,
         net_profit        |-> net_profit,
         profit_percentage |-> net_profit,
         volume            |-> MinVolume(exchange1.volume, exchange2.volume)]

CrossingPairs(results) ==
    SelectSeq(Combinations2(Len(results)),
              LAMBDA p : Crosses(results[p[1]], results[p[2]]))

\* main.py 93: min() of a None volume and a number raises TypeError.
VolumeRaises(results) ==
    \E k \in 1..Len(CrossingPairs(results)) :
        LET p == CrossingPairs(results)[k]
        IN  results[p[1]].volume = None \/ results[p[2]].volume = None

\* main.py 71-94 for one symbol, in combinations order.
EmitFor(symbol, results) ==
    LET ps == CrossingPairs(results)
    IN  [k \in 1..Len(ps) |-> Opportunity(symbol, results[ps[k][1]], results[ps[k][2]])]

EvaluateRaises(results) ==
    results # <<>> /\ (SpreadRaises(results) \/ VolumeRaises(results))

---------------------------------------------------------------------------
(* scan_arbitrage: all symbols, then the sort *)

RECURSIVE EmitAll(_, _)
EmitAll(grouped, i) ==
    IF i > Len(grouped) THEN <<>>
    ELSE (IF grouped[i].value = <<>> THEN <<>>
          ELSE EmitFor(grouped[i].key, grouped[i].value))
         \o EmitAll(grouped, i + 1)

\* main.py 59-69: arbitrage_before_fees, one entry per key of grouped_results.
BeforeFees(grouped) ==
    [i \in 1..Len(grouped) |->
        [key   |-> grouped[i].key,
         value |-> IF grouped[i].value = <<>> THEN None
                   ELSE RawSpread(grouped[i].value)]]

\* A sort that puts an element before the earlier ones of equal key.
InsertAtBeforeEqual(sorted, op) ==
    Cardinality({i \in 1..Len(sorted) :
                    sorted[i].profit_percentage > op.profit_percentage})

\* How many leading elements of a non-increasing list a new element goes
\* behind: list.sort(reverse=True) is stable, equal keys keep their order.
InsertAt(sorted, op) ==
    Cardinality({i \in 1..Len(sorted) :
                    sorted[i].profit_percentage >= op.profit_percentage})

Insert(sorted, op) ==
    LET n == InsertAt(sorted, op)
    IN  SubSeq(sorted, 1, n) \o <<op>> \o SubSeq(sorted, n + 1, Len(sorted))

\* main.py 96.
RECURSIVE SortFrom(_, _, _)
SortFrom(ops, i, sorted) ==
    IF i > Len(ops) THEN sorted
    ELSE SortFrom(ops, i + 1, Insert(sorted, ops[i]))

SortByProfitDesc(ops) == SortFrom(ops, 1, <<>>)

\* main.py 44-98.  raised: a TypeError left the function.
scan_arbitrage(results) ==
    LET grouped == GroupBySymbol(results)
    IN  IF \E i \in 1..Len(grouped) : EvaluateRaises(grouped[i].value)
        THEN [raised |-> TRUE]
        ELSE [raised                |-> FALSE,
              opportunities         |-> SortByProfitDesc(EmitAll(grouped, 1)),
              grouped_results       |-> grouped,
              arbitrage_before_fees |-> BeforeFees(grouped)]

\* main.py 112, 119: create_table reads both dicts with .get.
SpreadOf(before, symbol) ==
    IF symbol \in Keys(before) THEN Value(before, symbol) ELSE None

ResultsOf(grouped, symbol) ==
    IF symbol \in Keys(grouped) THEN Value(grouped, symbol) ELSE <<>>

\* main.py 123: formatting a None bid, ask or volume with .2f raises TypeError.
ReportRaises(grouped) ==
    \E i \in 1..Len(grouped) : \E j \in 1..Len(grouped[i].value) :
        LET r == grouped[i].value[j]
        IN  r.bid = None \/ r.ask = None \/ r.volume = None

---------------------------------------------------------------------------
(* continuous_arbitrage_scan *)

NoSlots == [i \in {} |-> NoneResult]

AllExchanges == {exchange_ids[i] : i \in 1..Len(exchange_ids)}

\* main.py 170, 197: an exception inside the try runs the finally clause.
Unwind(exception) == "closing"

Init ==
    /\ symbols \in get_valid_pairs(common_symbols)
    /\ pc = "gather"
    /\ all_results = NoSlots
    /\ opportunities = <<>>
    /\ grouped_results = <<>>
    /\ arbitrage_before_fees = <<>>
    /\ cancelled = FALSE
    /\ must_cancel = FALSE
    /\ closed = {}
    /\ raised = "none"

Leave(exception) ==
    /\ pc' = Unwind(exception)
    /\ raised' = exception
    /\ all_results' = NoSlots
    /\ opportunities' = <<>>
    /\ grouped_results' = <<>>
    /\ arbitrage_before_fees' = <<>>

\* An exception raised at the await of the finally clause (main.py 198) ends
\* the function with the closes that have completed.
LeaveFinally(exception) ==
    /\ pc' = "stopped"
    /\ raised' = exception
    /\ UNCHANGED <<all_results, opportunities, grouped_results,
                   arbitrage_before_fees>>

\* One fetch_ticker coroutine completes (main.py 24-38).
FetchComplete(i, resp) ==
    /\ pc = "gather"
    /\ i \notin DOMAIN all_results
    /\ all_results' = GatherStore(all_results, i,
                          fetch_ticker(Tasks[i].exchange, Tasks[i].symbol, resp))
    /\ UNCHANGED <<symbols, pc, opportunities, grouped_results,
                   arbitrage_before_fees, cancelled, must_cancel, closed,
                   raised>>

\* scan_arbitrage after its await: it groups, evaluates and sorts, and either
\* returns to the loop or raises (main.py 47-98, 172).
ScanBody ==
    LET r == scan_arbitrage(ResultList(all_results))
    IN  IF r.raised
        THEN Leave("TypeError")
        ELSE /\ pc' = "report"
             /\ opportunities' = r.opportunities
             /\ grouped_results' = r.grouped_results
             /\ arbitrage_before_fees' = r.arbitrage_before_fees
             /\ UNCHANGED <<all_results, raised>>

\* gather returns and scan_arbitrage runs to its end.
ScanResume ==
    /\ pc = "gather"
    /\ GatherDone(all_results)
    /\ ScanBody
    /\ UNCHANGED <<symbols, cancelled, must_cancel, closed>>

\* Tables and log lines (main.py 174-194), then the loop awaits the sleep.
Report ==
    /\ pc = "report"
    /\ IF ReportRaises(grouped_results)
       THEN Leave("TypeError")
       ELSE /\ pc' = "sleep"
            /\ all_results' = NoSlots
            /\ opportunities' = <<>>
            /\ grouped_results' = <<>>
            /\ arbitrage_before_fees' = <<>>
            /\ UNCHANGED raised
    /\ UNCHANGED <<symbols, cancelled, must_cancel, closed>>

\* asyncio.sleep(5) returns and the next scan_arbitrage call issues its fetches
\* (main.py 196, 171-172, 41-42).
NextCycle ==
    /\ pc = "sleep"
    /\ ~must_cancel
    /\ pc' = "gather"
    /\ UNCHANGED <<symbols, all_results, opportunities, grouped_results,
                   arbitrage_before_fees, cancelled, must_cancel, closed,
                   raised>>

\* The signal arrives while the task is suspended in an await and
\* CancelledError is raised there.  In the gather of the fetches or in the
\* sleep it leaves the loop and the finally clause runs.  In the gather of the
\* closes (main.py 198, entered after an exception left the loop) it cancels
\* the closes that have not completed and leaves the function.
SignalAtAwait ==
    /\ ~cancelled
    /\ cancelled' = TRUE
    /\ \/ pc \in {"gather", "sleep"} /\ Leave("CancelledError")
       \/ pc = "closing" /\ LeaveFinally("CancelledError")
    /\ UNCHANGED <<symbols, must_cancel, closed>>

\* The signal arrives while code of the program runs and is raised there as
\* KeyboardInterrupt.  Raised in the main task's own code (on the way into the
\* gather, main.py 171-172, 45, 41-42; in the rest of scan_arbitrage, main.py
\* 47-98; in the report, main.py 174-194) or in a fetch_ticker task (main.py
\* 24-38, whose handler catches Exception only) it leaves the loop and the
\* finally clause runs.  Raised in a close() that has not completed it leaves
\* the gather of the closes and the function.
SignalInterrupts ==
    /\ ~cancelled
    /\ cancelled' = TRUE
    /\ \/ pc \in {"gather", "report"} /\ Leave("KeyboardInterrupt")
       \/ /\ pc = "closing"
          /\ closed # AllExchanges
          /\ LeaveFinally("KeyboardInterrupt")
    /\ UNCHANGED <<symbols, must_cancel, closed>>

\* The signal arrives while the task runs the rest of scan_arbitrage after the
\* gather (main.py 47-98) and the runner's handler cancels the task: the
\* cancellation waits for the next await and scan_arbitrage runs to its end.
SignalDuringScan ==
    /\ ~cancelled
    /\ pc = "gather"
    /\ GatherDone(all_results)
    /\ cancelled' = TRUE
    /\ must_cancel' = TRUE
    /\ ScanBody
    /\ UNCHANGED <<symbols, closed>>

\* The signal arrives while the task runs the report (main.py 174-194) and
\* the runner's handler cancels the task: the cancellation waits for the next
\* await.
SignalDeferred ==
    /\ ~cancelled
    /\ pc = "report"
    /\ cancelled' = TRUE
    /\ must_cancel' = TRUE
    /\ UNCHANGED <<symbols, pc, all_results, opportunities, grouped_results,
                   arbitrage_before_fees, closed, raised>>

\* A waiting cancellation is raised at the next await the task reaches.  At
\* the sleep (main.py 196) the CancelledError leaves the loop and the finally
\* clause runs.  When an exception has left the loop first, the next await is
\* the gather of the closes in the finally clause (main.py 198): the gather
\* is cancelled before any close() has started and the CancelledError leaves
\* the function in place of the first exception.
DeliverCancel ==
    /\ must_cancel
    /\ must_cancel' = FALSE
    /\ \/ /\ pc = "sleep"
          /\ Leave("CancelledError")
       \/ /\ pc = "closing"
          /\ LeaveFinally("CancelledError")
    /\ UNCHANGED <<symbols, cancelled, closed>>

\* finally: one exchange's close() completes (main.py 198).
Close(e) ==
    /\ pc = "closing"
    /\ ~must_cancel
    /\ e \notin closed
    /\ closed' = closed \cup {e}
    /\ UNCHANGED <<symbols, pc, all_results, opportunities, grouped_results,
                   arbitrage_before_fees, cancelled, must_cancel, raised>>

\* The gather of the closes returns and the exception leaves the function.
Finish ==
    /\ pc = "closing"
    /\ ~must_cancel
    /\ closed = AllExchanges
    /\ pc' = "stopped"
    /\ UNCHANGED <<symbols, all_results, opportunities, grouped_results,
                   arbitrage_before_fees, cancelled, must_cancel, closed,
                   raised>>

\* The responses of the runs that follow the loop to its end: a failure, two
\* tickers that cross, one the evaluation raises on, and one the evaluation
\* (when it is in a crossing pair) or else the report raises on.
LoopResponses ==
    {Raises, Ticker(1, 1, 1), Ticker(MaxPrice, 1, 2), Ticker(None, 1, 1),
     Ticker(1, 1, None)}

Step(responses) ==
    \/ \E i \in 1..NumTasks, resp \in responses : FetchComplete(i, resp)
    \/ ScanResume
    \/ Report
    \/ NextCycle
    \/ SignalAtAwait
    \/ SignalInterrupts
    \/ SignalDuringScan
    \/ SignalDeferred
    \/ DeliverCancel
    \/ \E e \in AllExchanges : Close(e)
    \/ Finish

Next == Step(Responses)

Spec == Init /\ [][Next]_vars

LoopNext == Step(LoopResponses)

\* The event loop runs the main task whenever it can go on: through the
\* report, into a pending cancellation, and through the closes of the finally
\* clause.  Signals and fetch completions come from outside and carry no
\* fairness.
FairSpec ==
    /\ Init /\ [][LoopNext]_vars
    /\ WF_vars(Report)
    /\ WF_vars(DeliverCancel)
    /\ WF_vars(\E e \in AllExchanges : Close(e))
    /\ WF_vars(Finish)

Running == pc \in {"gather", "report", "sleep"}
Stopped == pc = "stopped"

---------------------------------------------------------------------------
(* Vocabulary of the properties *)

\* scan_arbitrage has returned this cycle's snapshot and it is not yet reported.
Scanned == pc = "report"

QuotesOf(symbol) == ResultsOf(grouped_results, symbol)

Idx(seq) == 1..Len(seq)

OpsOf(symbol) == {k \in Idx(opportunities) : opportunities[k].symbol = symbol}

OpsFor(symbol, buy_at, sell_at) ==
    {k \in OpsOf(symbol) : /\ opportunities[k].buy_at = buy_at
                           /\ opportunities[k].sell_at = sell_at}

Degenerate(q) == q.bid = 0 \/ q.ask = 0 \/ q.volume = 0

\* The quote of an exchange in this cycle's group of a symbol.
QuoteAt(symbol, exchange) ==
    LET qs == QuotesOf(symbol)
    IN  qs[CHOOSE i \in Idx(qs) : qs[i].exchange = exchange]

\* No venue's bid is above another venue's ask.
NoDistinctCross(qs) ==
    \A i, j \in Idx(qs) : i # j => qs[i].ask >= qs[j].bid

FailedTasks == {i \in DOMAIN all_results : all_results[i] = NoneResult}

\* The list of results as if task i had not been issued.
Without(results, i) ==
    [k \in 1..(Len(results) - 1) |-> IF k < i THEN results[k] ELSE results[k + 1]]

SnapshotIs(r) ==
    /\ ~r.raised
    /\ opportunities = r.opportunities
    /\ grouped_results = r.grouped_results
    /\ arbitrage_before_fees = r.arbitrage_before_fees

---------------------------------------------------------------------------
\* C1: for every ordered pair (seller, buyer) of distinct venue quotes of an
\* instrument with seller.bid > buyer.ask > 0 the scan emits exactly one
\* opportunity selling at the seller and buying at the buyer, whichever venue
\* is listed first, and never two for one (instrument, buy venue, sell venue).
\* Stated for pairs of quotes with non-zero bid, ask and volume, which no
\* filter would drop.
C1_EveryCrossingEmittedOnce ==
    Scanned =>
        \A s \in Keys(grouped_results) :
            LET qs == QuotesOf(s)
            IN  /\ \A i, j \in Idx(qs) :
                      (/\ i # j
                       /\ ~Degenerate(qs[i]) /\ ~Degenerate(qs[j])
                       /\ qs[i].bid > qs[j].ask /\ qs[j].ask > 0)
                          => Cardinality(OpsFor(s, qs[j].exchange, qs[i].exchange)) = 1
                /\ \A i, j \in Idx(qs) :
                      Cardinality(OpsFor(s, qs[j].exchange, qs[i].exchange)) <= 1

\* C2: no emitted opportunity has a degenerate quote (bid, ask or volume 0)
\* as its buy side or its sell side, and its minimum volume is above 0.
C2_NoDegenerateSide ==
    Scanned =>
        \A k \in Idx(opportunities) :
            LET op == opportunities[k]
            IN  /\ ~Degenerate(QuoteAt(op.symbol, op.buy_at))
                /\ ~Degenerate(QuoteAt(op.symbol, op.sell_at))
                /\ op.volume > 0

\* C3: when no pair of distinct venues crosses, the instrument has
\* no opportunity and its raw spread is absent, also when a venue's own bid
\* is above its own ask.  Stated for instruments whose quotes all have
\* non-zero bid, ask and volume, which no filter would drop.
C3_NoCrossNoSpread ==
    Scanned =>
        \A s \in Keys(grouped_results) :
            (/\ \A i \in Idx(QuotesOf(s)) : ~Degenerate(QuotesOf(s)[i])
             /\ NoDistinctCross(QuotesOf(s)))
                => OpsOf(s) = {} /\ SpreadOf(arbitrage_before_fees, s) = None

\* C4: a failed fetch of (V, I) leaves the scan complete: every other result
\* is grouped unchanged, the failed pair contributes no quote, and the
\* snapshot is the one of a scan in which V was not asked for I.
C4_FetchFailureIsolated ==
    /\ [](Scanned =>
            \A i \in FailedTasks :
                /\ SnapshotIs(scan_arbitrage(Without(ResultList(all_results), i)))
                /\ \A q \in {QuotesOf(Tasks[i].symbol)[k] : k \in Idx(QuotesOf(Tasks[i].symbol))} :
                      q.exchange # Tasks[i].exchange
                /\ \A j \in DOMAIN all_results :
                      all_results[j] # NoneResult
                          => \E k \in Idx(QuotesOf(Tasks[j].symbol)) :
                                QuotesOf(Tasks[j].symbol)[k] = all_results[j])
    /\ [][(/\ pc = "gather"
           /\ GatherDone(all_results)
           /\ FailedTasks # {}
           /\ raised' \notin {"CancelledError", "KeyboardInterrupt"}
           /\ \A i \in FailedTasks :
                 ~scan_arbitrage(Without(ResultList(all_results), i)).raised)
          => pc' = "report"]_vars

\* C4 witness: a scanned cycle in which a fetch failed for an instrument that
\* still has an opportunity among the remaining venues, as has the other
\* instrument.
C4_Witness ==
    /\ Scanned
    /\ \E i \in FailedTasks :
          /\ OpsOf(Tasks[i].symbol) # {}
          /\ \E s \in Keys(grouped_results) : s # Tasks[i].symbol /\ OpsOf(s) # {}
          /\ \E j \in DOMAIN all_results : j > i /\ all_results[j] # NoneResult

\* C5: the returned list holds the opportunities of all instruments, is sorted
\* non-increasing by profit_percentage, and keeps opportunities of equal
\* profit_percentage in the order of emission.
C5_SortedStable ==
    Scanned =>
        LET emitted == EmitAll(grouped_results, 1)
            pos(op) == CHOOSE k \in Idx(opportunities) : opportunities[k] = op
        IN  /\ Len(opportunities) = Len(emitted)
            /\ \A a \in Idx(emitted) : \E k \in Idx(opportunities) : opportunities[k] = emitted[a]
            /\ \A k \in Idx(opportunities) :
                  k > 1 => opportunities[k - 1].profit_percentage
                              >= opportunities[k].profit_percentage
            /\ \A a, b \in Idx(emitted) :
                  (a < b /\ emitted[a].profit_percentage = emitted[b].profit_percentage)
                      => pos(emitted[a]) < pos(emitted[b])

\* C5 witness: a returned list over two instruments that the sort reordered
\* and that holds two opportunities of equal profit_percentage.
C5_Witness ==
    /\ Scanned
    /\ opportunities # EmitAll(grouped_results, 1)
    /\ \E a, b \in Idx(opportunities) :
          /\ a < b
          /\ opportunities[a].profit_percentage = opportunities[b].profit_percentage
          /\ opportunities[a].symbol # opportunities[b].symbol

\* C6: a failure raised by the evaluation, ranking or reporting of a cycle
\* does not stop the loop, which stays Running.
C6_ComputationFailureKeepsRunning ==
    raised = "TypeError" => Running

\* C7: after a scan the grouped-quotes mapping has a key for every scanned
\* instrument; one whose every fetch failed has an empty sequence and an
\* absent raw spread.
C7_EveryInstrumentKeyed ==
    Scanned =>
        \A k \in Idx(symbols) :
            /\ symbols[k] \in Keys(grouped_results)
            /\ (\A i \in Idx(Tasks) :
                    Tasks[i].symbol = symbols[k] => all_results[i] = NoneResult)
                  => /\ Value(grouped_results, symbols[k]) = <<>>
                     /\ SpreadOf(arbitrage_before_fees, symbols[k]) = None

\* C8: evaluation starts only after every fetch has completed, every result
\* sits at the position of its (venue, instrument) pair whatever the order of
\* completion, each group lists its quotes in venue order, and the snapshot
\* is the function of the fetch outcomes alone.
C8_CompletionOrderIrrelevant ==
    /\ \A i \in DOMAIN all_results :
          all_results[i] # NoneResult
              => /\ all_results[i].exchange = Tasks[i].exchange
                 /\ all_results[i].symbol = Tasks[i].symbol
    /\ Scanned =>
          /\ GatherDone(all_results)
          /\ SnapshotIs(scan_arbitrage(ResultList(all_results)))
          /\ \A s \in Keys(grouped_results) :
                QuotesOf(s) = SelectSeq(ResultList(all_results),
                                  LAMBDA r : r # NoneResult /\ r.symbol = s)

\* C8 witness: the fetch issued last has completed with a quote, stored at
\* its own position, while the fetch issued first is still pending.
C8_Witness ==
    /\ pc = "gather"
    /\ 1 \notin DOMAIN all_results
    /\ NumTasks \in DOMAIN all_results
    /\ all_results[NumTasks] # NoneResult

\* C9: when a cancellation signal arrives while the loop is Running, every
\* exchange is closed by the time the loop stops, the loop reaches Stopped, no
\* scan cycle starts and no snapshot is reported after the signal.  A signal
\* that had arrived before the step that stops the loop arrived while the loop
\* was Running (one that arrives in the finally clause is itself that step).
C9_NothingAfterSignal ==
    /\ [][(cancelled /\ pc # "stopped" /\ pc' = "stopped")
              => closed' = AllExchanges]_vars
    /\ (cancelled ~> Stopped)
    /\ [][cancelled => ~(pc # "gather" /\ pc' = "gather")]_vars
    /\ [][cancelled => ~(pc = "report" /\ pc' = "sleep")]_vars

\* C10: the raw spread of an instrument is max(bid) - min(ask) over its quotes
\* with bid, ask and volume all non-zero when that is positive, absent
\* otherwise, and absent when every quote is degenerate.
C10_SpreadOverNonDegenerate ==
    Scanned =>
        \A s \in Keys(grouped_results) :
            LET filtered == SelectSeq(QuotesOf(s), LAMBDA q : ~Degenerate(q))
            IN  SpreadOf(arbitrage_before_fees, s) =
                    IF filtered = <<>> THEN None
                    ELSE IF Max(Bids(filtered)) - Min(Asks(filtered)) > 0
                         THEN Max(Bids(filtered)) - Min(Asks(filtered))
                         ELSE None

====
